---- MODULE Spec2Model ----
(***************************************************************************)
(* Model of src/app.py: the retry wrapper, the cached backend client, the  *)
(* five persistence operations of SymbolicSolver and the iterative         *)
(* substitution solver of SiteSolver.                                      *)
(*                                                                         *)
(* Money values are Python floats in the source.  They are modelled as     *)
(* exact rationals <<n, d>> in lowest terms with d > 0, so a comparison    *)
(* against the 0.01 tolerance is decided exactly.                          *)
(* SKU strings are modelled as tuples of characters, so that               *)
(* upper()/strip() are computed rather than assumed.                       *)
(***************************************************************************)
EXTENDS Integers, Sequences, FiniteSets, TLC

VARIABLES orders, order_items, manual_prices,
          mgr_client, mgr_last_used, db_client, handles, now,
          call, sv, session, ui

vars == <<orders, order_items, manual_prices,
          mgr_client, mgr_last_used, db_client, handles, now, call, sv,
          session, ui>>

dbVars == <<orders, order_items, manual_prices>>
clientVars == <<mgr_client, mgr_last_used, db_client, handles>>
\* st.session_state and the click the page script is handling
uiVars == <<session, ui>>

None == "None"
\* `_client = None` and `_last_used = None`; handles are numbered from 1
NoClient == 0
NoTime == -1

(***************************************************************************)
(* Exact rational arithmetic standing for float arithmetic.                *)
(***************************************************************************)
RECURSIVE Gcd(_, _)
Gcd(a, b) == IF b = 0 THEN a ELSE Gcd(b, a % b)

IAbs(i) == IF i < 0 THEN -i ELSE i

Norm(n, d) ==
  LET g == Gcd(IAbs(n), IAbs(d))
      s == IF d < 0 THEN -1 ELSE 1
  IN  <<(s * n) \div g, (s * d) \div g>>

FromInt(i) == <<i, 1>>
RSub(a, b) == Norm(a[1] * b[2] - b[1] * a[2], a[2] * b[2])
RAdd(a, b) == Norm(a[1] * b[2] + b[1] * a[2], a[2] * b[2])
RMulInt(q, a) == Norm(q * a[1], a[2])
RDivInt(a, q) == Norm(a[1], a[2] * q)
RAbs(a) == <<IAbs(a[1]), a[2]>>
RLess(a, b) == a[1] * b[2] < b[1] * a[2]

Tolerance == <<1, 100>>

\* f"{x:.2f}": the value the two-decimal rendering denotes (round half even).
Fmt2(a) ==
  LET x == 100 * a[1]
      q == x \div a[2]
      r == x % a[2]
      up == (2 * r > a[2]) \/ (2 * r = a[2] /\ q % 2 = 1)
  IN  Norm(IF up THEN q + 1 ELSE q, 100)

(***************************************************************************)
(* Strings as tuples of characters.                                        *)
(***************************************************************************)
UpperChar(c) ==
  CASE c = "a" -> "A"
    [] c = "b" -> "B"
    [] c = "c" -> "C"
    [] OTHER -> c

Upper(s) == [i \in 1..Len(s) |-> UpperChar(s[i])]

RECURSIVE LStrip(_)
LStrip(s) == IF s # <<>> /\ Head(s) = " " THEN LStrip(Tail(s)) ELSE s

RECURSIVE RStrip(_)
RStrip(s) ==
  IF s # <<>> /\ s[Len(s)] = " " THEN RStrip(SubSeq(s, 1, Len(s) - 1)) ELSE s

Strip(s) == RStrip(LStrip(s))

skuA == <<"A">>
skuB == <<"B">>
skuC == <<"C">>

(***************************************************************************)
(* Sequence helpers.                                                       *)
(***************************************************************************)
RECURSIVE Flatten(_)
Flatten(ss) == IF ss = <<>> THEN <<>> ELSE Head(ss) \o Flatten(Tail(ss))

EmptyFn == [x \in {} |-> 0]

(***************************************************************************)
(* Bounds and input sets.                                                  *)
(***************************************************************************)
\* two of the three SITES keys (PH is left out to bound the model)
Sites == {"MX", "TH"}
OrderIdSeq == <<"o1", "o2", "o3", "o4">>

Item(s, q) == [sku |-> s, qty |-> q]

\* Line-item lists a solver run is started on (stored, normalised form).
SolveItemLists ==
  { <<Item(skuA, 1)>>,
    <<Item(skuB, 1)>>,
    <<Item(skuA, 1), Item(skuB, 1)>>,
    <<Item(skuA, 2), Item(skuB, 1)>>,
    <<Item(skuA, 3)>>,
    <<Item(skuA, 1), Item(skuB, 1), Item(skuC, 1)>>,
    <<Item(skuA, 1), Item(skuA, 2)>> }

SolveTotals == {10, 15, 30}
ManualValues == {12}
MaxSolveOrders == 2

\* The console session: what the operator may submit.
OrderIds == {"o1", "o2"}
AddTotals == {10, 15}
\* raw line-item rows as the entry form hands them to add_order
AddItemLists ==
  { <<Item(<<"A">>, 1)>>,
    <<Item(<<" ", "a">>, 1), Item(<<>>, 1), Item(<<"b", " ">>, 2)>> }
ManualSkus == {skuA}
MaxOrders == 2
MaxFaultyOrders == 1
MaxTime == 3

\* a new call is started only while the clock is within the model's horizon
CanBegin == call.status = "idle" /\ now <= MaxTime

(***************************************************************************)
(* SymbolicSolver.get_site_data: the three site-filtered selects.          *)
(***************************************************************************)
SelectOrders(tbl, site) == SelectSeq(tbl, LAMBDA o : o.site = site)

\* variant: the line-item select lacks its site filter
SelectItems_AllSites(tbl, site) == tbl

SelectItems(tbl, site) == SelectSeq(tbl, LAMBDA it : it.site = site)

SelectManual(tbl, site) ==
  [s \in {k[2] : k \in {j \in DOMAIN tbl : j[1] = site}} |-> tbl[<<site, s>>]]

(***************************************************************************)
(* SiteSolver._solve_logic.                                                *)
(***************************************************************************)
MaxIterations == 50

\* dict comprehension keyed by order_id: first occurrence fixes the position,
\* the last occurrence the total.
RECURSIVE OrderKeys(_, _)
OrderKeys(ords, seen) ==
  IF ords = <<>> THEN <<>>
  ELSE IF Head(ords).order_id \in seen THEN OrderKeys(Tail(ords), seen)
       ELSE <<Head(ords).order_id>>
              \o OrderKeys(Tail(ords), seen \cup {Head(ords).order_id})

OrderTotal(ords, oid) ==
  LET rows == SelectSeq(ords, LAMBDA o : o.order_id = oid)
  IN  rows[Len(rows)].total_hidden_price

OrderMap(ords, items) ==
  LET keys == OrderKeys(ords, {})
  IN  [i \in 1..Len(keys) |->
         [order_id |-> keys[i],
          total |-> OrderTotal(ords, keys[i]),
          items |-> SelectSeq(items, LAMBDA it : it.order_id = keys[i])]]

AllSkus(items) == {items[i].sku : i \in 1..Len(items)}

RECURSIVE KnownSum(_, _)
KnownSum(o_items, determined) ==
  IF o_items = <<>> THEN FromInt(0)
  ELSE LET it == Head(o_items)
           rest == KnownSum(Tail(o_items), determined)
       IN  IF it.sku \in DOMAIN determined
           THEN RAdd(RMulInt(it.quantity, determined[it.sku]), rest)
           ELSE rest

UnknownItems(o_items, determined) ==
  SelectSeq(o_items, LAMBDA it : it.sku \notin DOMAIN determined)

\* variant: the conflict entry is never recorded
AddConflict_Dropped(conflicts, sku, info) == conflicts

\* conflicts[sku].append(info) unless a candidate within 0.01 is already listed
AddConflict(conflicts, sku, info) ==
  LET cur == IF sku \in DOMAIN conflicts THEN conflicts[sku] ELSE <<>>
      dup == \E i \in 1..Len(cur) :
               RLess(RAbs(RSub(cur[i].value, info.value)), Tolerance)
      new == IF dup THEN cur ELSE Append(cur, info)
  IN  [s \in DOMAIN conflicts \cup {sku} |-> IF s = sku THEN new ELSE conflicts[s]]

SetDetermined(determined, sku, val) ==
  [s \in DOMAIN determined \cup {sku} |-> IF s = sku THEN val ELSE determined[s]]

\* body of `for oid, data in order_map.items()`
ProcessOrder(st, o) ==
  LET remaining == RSub(o.total, KnownSum(o.items, st.determined))
      unknown == UnknownItems(o.items, st.determined)
  IN  IF Len(unknown) = 0
      THEN IF RLess(Tolerance, RAbs(remaining)) /\ Len(o.items) = 1
           THEN LET sku == o.items[1].sku
                    qty == o.items[1].quantity
                    implied == IF qty # 0 THEN RDivInt(o.total, qty) ELSE FromInt(0)
                    info == [value |-> implied,
                             derived_from |-> o.order_id,
                             equation |-> <<qty, sku, o.total>>,
                             current |-> st.determined[sku],
                             type |-> "order_mismatch"]
                IN  [st EXCEPT !.conflicts = AddConflict(@, sku, info)]
           ELSE st
      ELSE IF Len(unknown) = 1
      THEN LET sku == unknown[1].sku
               qty == unknown[1].quantity
               val == IF qty = 0 THEN FromInt(0) ELSE RDivInt(remaining, qty)
           IN  IF sku \in DOMAIN st.determined
               THEN LET old_val == st.determined[sku]
                        info == [value |-> val,
                                 derived_from |-> o.order_id,
                                 equation |-> <<qty, sku, Fmt2(remaining)>>,
                                 current |-> old_val,
                                 type |-> "derivation_conflict"]
                    IN  IF RLess(Tolerance, RAbs(RSub(old_val, val)))
                        THEN [st EXCEPT !.conflicts = AddConflict(@, sku, info)]
                        ELSE st
               ELSE [st EXCEPT !.determined = SetDetermined(@, sku, val),
                               !.changed = TRUE]
      ELSE st

\* variant: the known-price map is not seeded with the manual overrides
SolverStart_NoSeed(manual) ==
  [determined |-> EmptyFn, conflicts |-> EmptyFn,
   changed |-> TRUE, iteration |-> 0]

SolverStart(manual) ==
  [determined |-> manual, conflicts |-> EmptyFn,
   changed |-> TRUE, iteration |-> 0]

RECURSIVE RunPass(_, _, _)
RunPass(st, om, i) ==
  IF i > Len(om) THEN st ELSE RunPass(ProcessOrder(st, om[i]), om, i + 1)

\* variant: a single pass over the orders
LoopContinues_OnePass(st) == st.changed /\ st.iteration < 1

\* variant: the loop ignores `changed` and runs to the pass cap
LoopContinues_Always(st) == st.iteration < MaxIterations

\* `while changed and iteration < 50`
LoopContinues(st) == st.changed /\ st.iteration < MaxIterations

RECURSIVE ResolveLoop(_, _)
ResolveLoop(st, om) ==
  IF LoopContinues(st)
  THEN ResolveLoop(
         RunPass([st EXCEPT !.changed = FALSE, !.iteration = @ + 1], om, 1), om)
  ELSE st

\* variant: the known SKUs' contribution is not subtracted from the total
ConstraintOf_TotalRhs(o, determined) ==
  LET unknown_terms == UnknownItems(o.items, determined)
  IN  IF Len(unknown_terms) >= 2
      THEN << [order_id |-> o.order_id,
               terms |-> [i \in 1..Len(unknown_terms) |->
                            <<unknown_terms[i].quantity, unknown_terms[i].sku>>],
               rhs |-> Fmt2(o.total),
               missing_skus |-> [i \in 1..Len(unknown_terms) |->
                                   unknown_terms[i].sku]] >>
      ELSE <<>>

\* one entry of `constraints`, or <<>> when the order has fewer than 2 unknowns
ConstraintOf(o, determined) ==
  LET unknown_terms == UnknownItems(o.items, determined)
      remaining == RSub(o.total, KnownSum(o.items, determined))
  IN  IF Len(unknown_terms) >= 2
      THEN << [order_id |-> o.order_id,
               terms |-> [i \in 1..Len(unknown_terms) |->
                            <<unknown_terms[i].quantity, unknown_terms[i].sku>>],
               rhs |-> Fmt2(remaining),
               missing_skus |-> [i \in 1..Len(unknown_terms) |->
                                   unknown_terms[i].sku]] >>
      ELSE <<>>

Underdetermined(items, determined) == AllSkus(items) \ DOMAIN determined

EmitConstraints(om, items, determined) ==
  IF Underdetermined(items, determined) # {}
  THEN Flatten([i \in 1..Len(om) |-> ConstraintOf(om[i], determined)])
  ELSE <<>>

EmptyResult ==
  [determined |-> EmptyFn, conflicts |-> EmptyFn, constraints |-> <<>>,
   underdetermined |-> {}, orders |-> <<>>, inconsistent_orders |-> <<>>]

SolveLogic(ords, items, manual) ==
  LET om == OrderMap(ords, items)
      st == ResolveLoop(SolverStart(manual), om)
  IN  [determined |-> st.determined,
       conflicts |-> st.conflicts,
       constraints |-> EmitConstraints(om, items, st.determined),
       underdetermined |-> Underdetermined(items, st.determined),
       orders |-> ords,
       inconsistent_orders |-> <<>>]

\* SiteSolver.solve on the data the three selects return
SolveOn(ords, items, manual) ==
  IF ords = <<>> THEN EmptyResult ELSE SolveLogic(ords, items, manual)

(***************************************************************************)
(* SupabaseManager.get_client and SymbolicSolver.client.                   *)
(***************************************************************************)
StaleAfter == 300

NeedNewClient ==
  \/ mgr_client = NoClient
  \/ (mgr_last_used # NoTime /\ mgr_last_used # 0 /\ now - mgr_last_used > StaleAfter)

\* the `self.client` property read that starts every backend statement
UseClient ==
  IF db_client # NoClient
  THEN UNCHANGED clientVars
  ELSE IF NeedNewClient
       THEN /\ handles' = handles + 1
            /\ mgr_client' = handles + 1
            /\ mgr_last_used' = now
            /\ db_client' = handles + 1
       ELSE /\ db_client' = mgr_client
            /\ UNCHANGED <<mgr_client, mgr_last_used, handles>>

(***************************************************************************)
(* retry_on_error(max_retries=3, delay=2): the wrapper around every        *)
(* SymbolicSolver method.  `call` is the wrapper's frame: the 0-based      *)
(* attempt, the statement of the wrapped body that runs next, the number   *)
(* of times the body was entered, the sleeps made and the raises that      *)
(* reached the caller.  `snap` is the database when the call was made.     *)
(***************************************************************************)
MaxRetries == 3
Delay == 2

IdleCall == [status |-> "idle"]

NewCall(op, args) ==
  [status |-> "running", op |-> op, args |-> args,
   attempt |-> 0, pc |-> 1, entered |-> 1, sleeps |-> <<>>, raised |-> 0,
   failure |-> None, result |-> None, loc |-> <<>>, snap |-> dbVars]

Running(op) == call.status = "running" /\ call.op = op

\* the frame of the wrapped body is gone once it returns or raises
Return(value) ==
  call' = [call EXCEPT !.status = "returned", !.result = value,
                       !.pc = 0, !.loc = <<>>]

Goto(n) == call' = [call EXCEPT !.pc = n]

\* variant: the wait does not grow with the attempt number
TransientOutcome_FlatDelay(c) ==
  IF c.attempt < MaxRetries - 1
  THEN [c EXCEPT !.sleeps = Append(@, Delay),
                 !.attempt = @ + 1, !.entered = @ + 1,
                 !.pc = 1, !.loc = <<>>, !.failure = "transient"]
  ELSE [c EXCEPT !.status = "raised", !.raised = @ + 1, !.failure = "transient",
                 !.pc = 0, !.loc = <<>>]

\* except-branch of the wrapper for a transient error
TransientOutcome(c) ==
  IF c.attempt < MaxRetries - 1
  THEN [c EXCEPT !.sleeps = Append(@, Delay * (c.attempt + 1)),
                 !.attempt = @ + 1, !.entered = @ + 1,
                 !.pc = 1, !.loc = <<>>, !.failure = "transient"]
  ELSE [c EXCEPT !.status = "raised", !.raised = @ + 1, !.failure = "transient",
                 !.pc = 0, !.loc = <<>>]

\* a backend statement raises "Resource temporarily unavailable" / "Errno 11"
FailTransient ==
  /\ call.status = "running"
  /\ UseClient
  /\ call' = TransientOutcome(call)
  /\ now' = IF call.attempt < MaxRetries - 1
            THEN now + Delay * (call.attempt + 1) ELSE now
  /\ UNCHANGED <<dbVars, sv>>
  /\ UNCHANGED uiVars

\* variant: any error is retried like a transient one
FailOther_Retried ==
  /\ call.status = "running"
  /\ UseClient
  /\ call' = [TransientOutcome(call) EXCEPT !.failure = "other"]
  /\ now' = IF call.attempt < MaxRetries - 1
            THEN now + Delay * (call.attempt + 1) ELSE now
  /\ UNCHANGED <<dbVars, sv>>
  /\ UNCHANGED uiVars

\* a backend statement raises any other error: `raise e` at once
FailOther ==
  /\ call.status = "running"
  /\ UseClient
  /\ call' = [call EXCEPT !.status = "raised", !.raised = @ + 1,
                          !.failure = "other", !.pc = 0, !.loc = <<>>]
  /\ UNCHANGED <<dbVars, now, sv>>
  /\ UNCHANGED uiVars

(***************************************************************************)
(* SymbolicSolver.add_order                                                *)
(***************************************************************************)
DuplicateOrder == <<FALSE, "duplicate_order_id">>
Saved == <<TRUE, "saved">>

\* variant: the pre-insert existence check is missing
Exists_NoCheck(site, order_id) == FALSE

Exists(site, order_id) ==
  \E i \in 1..Len(orders) :
     orders[i].site = site /\ orders[i].order_id = order_id

\* the list comprehension building `batch`
Batch(site, order_id, items) ==
  LET kept == SelectSeq(items, LAMBDA it : it.sku # <<>>)
  IN  [i \in 1..Len(kept) |->
         [site |-> site, order_id |-> order_id,
          sku |-> Strip(Upper(kept[i].sku)), quantity |-> kept[i].qty]]

\* `cap` bounds the stored order rows; a resubmitted pair needs no room
BeginAddOrder(cap, site, order_id, total, items) ==
  /\ CanBegin
  /\ \/ Len(orders) < cap
     \/ \E i \in 1..Len(orders) :
           orders[i].site = site /\ orders[i].order_id = order_id
  /\ call' = NewCall("add_order",
                     [site |-> site, order_id |-> order_id,
                      total |-> total, items |-> items])
  /\ UNCHANGED <<dbVars, clientVars, now, sv>>
  /\ UNCHANGED uiVars

ExecAddOrder ==
  /\ Running("add_order")
  /\ UseClient
  /\ LET a == call.args
         batch == Batch(a.site, a.order_id, a.items)
     IN  CASE call.pc = 1 ->
                /\ IF Exists(a.site, a.order_id)
                   THEN Return(DuplicateOrder)
                   ELSE Goto(2)
                /\ UNCHANGED dbVars
           [] call.pc = 2 ->
                /\ orders' = Append(orders,
                                    [site |-> a.site, order_id |-> a.order_id,
                                     total_hidden_price |-> FromInt(a.total)])
                /\ IF batch # <<>> THEN Goto(3) ELSE Return(Saved)
                /\ UNCHANGED <<order_items, manual_prices>>
           [] call.pc = 3 ->
                /\ order_items' = order_items \o batch
                /\ Return(Saved)
                /\ UNCHANGED <<orders, manual_prices>>
  /\ UNCHANGED <<now, sv>>
  /\ UNCHANGED uiVars

(***************************************************************************)
(* SymbolicSolver.delete_order / set_manual_price / clear_manual_price     *)
(***************************************************************************)
BeginDeleteOrder(site, order_id) ==
  /\ CanBegin
  /\ call' = NewCall("delete_order", [site |-> site, order_id |-> order_id])
  /\ UNCHANGED <<dbVars, clientVars, now, sv>>
  /\ UNCHANGED uiVars

\* variant: the order's line items are left behind
DeleteItems_Kept(site, order_id) == order_items

DeleteItems(site, order_id) ==
  SelectSeq(order_items,
            LAMBDA it : ~(it.site = site /\ it.order_id = order_id))

DeleteOrders(site, order_id) ==
  SelectSeq(orders, LAMBDA o : ~(o.site = site /\ o.order_id = order_id))

ExecDeleteOrder ==
  /\ Running("delete_order")
  /\ UseClient
  /\ LET a == call.args
     IN  CASE call.pc = 1 ->
                /\ order_items' = DeleteItems(a.site, a.order_id)
                /\ Goto(2)
                /\ UNCHANGED <<orders, manual_prices>>
           [] call.pc = 2 ->
                /\ orders' = DeleteOrders(a.site, a.order_id)
                /\ Return(TRUE)
                /\ UNCHANGED <<order_items, manual_prices>>
  /\ UNCHANGED <<now, sv>>
  /\ UNCHANGED uiVars

BeginSetManualPrice(site, sku, price) ==
  /\ CanBegin
  /\ call' = NewCall("set_manual_price",
                     [site |-> site, sku |-> sku, price |-> price])
  /\ UNCHANGED <<dbVars, clientVars, now, sv>>
  /\ UNCHANGED uiVars

Upsert(site, sku, price) ==
  [k \in DOMAIN manual_prices \cup {<<site, sku>>} |->
     IF k = <<site, sku>> THEN FromInt(price) ELSE manual_prices[k]]

ExecSetManualPrice ==
  /\ Running("set_manual_price")
  /\ UseClient
  /\ manual_prices' = Upsert(call.args.site, call.args.sku, call.args.price)
  /\ Return(TRUE)
  /\ UNCHANGED <<orders, order_items, now, sv>>
  /\ UNCHANGED uiVars

BeginClearManualPrice(site, sku) ==
  /\ CanBegin
  /\ call' = NewCall("clear_manual_price", [site |-> site, sku |-> sku])
  /\ UNCHANGED <<dbVars, clientVars, now, sv>>
  /\ UNCHANGED uiVars

\* variant: the delete lacks its sku filter
DeleteManual_WholeSite(site, sku) ==
  [k \in {j \in DOMAIN manual_prices : j[1] # site} |-> manual_prices[k]]

DeleteManual(site, sku) ==
  [k \in DOMAIN manual_prices \ {<<site, sku>>} |-> manual_prices[k]]

ExecClearManualPrice ==
  /\ Running("clear_manual_price")
  /\ UseClient
  /\ manual_prices' = DeleteManual(call.args.site, call.args.sku)
  /\ Return(TRUE)
  /\ UNCHANGED <<orders, order_items, now, sv>>
  /\ UNCHANGED uiVars

(***************************************************************************)
(* SymbolicSolver.get_site_data and SiteSolver.solve                       *)
(***************************************************************************)
BeginSolve(site) ==
  /\ CanBegin
  /\ call' = NewCall("get_site_data", [site |-> site])
  /\ UNCHANGED <<dbVars, clientVars, now, sv>>
  /\ UNCHANGED uiVars

ExecGetSiteData ==
  /\ Running("get_site_data")
  /\ UseClient
  /\ LET site == call.args.site
     IN  CASE call.pc = 1 ->
                call' = [call EXCEPT !.pc = 2, !.loc = <<SelectOrders(orders, site)>>]
           [] call.pc = 2 ->
                call' = [call EXCEPT !.pc = 3,
                                     !.loc = Append(@, SelectItems(order_items, site))]
           [] call.pc = 3 ->
                Return([orders |-> call.loc[1], items |-> call.loc[2],
                        manual |-> SelectManual(manual_prices, site)])
  /\ UNCHANGED <<dbVars, now, sv>>
  /\ UNCHANGED uiVars

IdleSolver == [pc |-> "idle"]

GotSiteData ==
  /\ call.status = "returned"
  /\ call.op = "get_site_data"
  /\ sv.pc = "idle"

\* solve, taken in one step
SolveAtomic ==
  /\ GotSiteData
  /\ sv' = [pc |-> "done", site |-> call.args.site,
            result |-> SolveOn(call.result.orders, call.result.items,
                               call.result.manual)]
  /\ UNCHANGED <<dbVars, clientVars, now, call>>
  /\ UNCHANGED uiVars

\* solve, taken one loop step at a time
SolveStart ==
  /\ GotSiteData
  /\ LET d == call.result
     IN  sv' = IF d.orders = <<>>
               THEN [pc |-> "done", site |-> call.args.site,
                     result |-> EmptyResult]
               ELSE [pc |-> "while", site |-> call.args.site,
                     ords |-> d.orders, items |-> d.items,
                     om |-> OrderMap(d.orders, d.items),
                     st |-> SolverStart(d.manual), idx |-> 0]
  /\ UNCHANGED <<dbVars, clientVars, now, call>>
  /\ UNCHANGED uiVars

SolveWhile ==
  /\ sv.pc = "while"
  /\ sv' = IF LoopContinues(sv.st)
           THEN [sv EXCEPT !.pc = "for", !.idx = 1,
                           !.st = [@ EXCEPT !.changed = FALSE,
                                            !.iteration = @ + 1]]
           ELSE [sv EXCEPT !.pc = "emit"]
  /\ UNCHANGED <<dbVars, clientVars, now, call>>
  /\ UNCHANGED uiVars

SolveFor ==
  /\ sv.pc = "for"
  /\ sv' = [sv EXCEPT !.st = ProcessOrder(@, sv.om[sv.idx]),
                      !.idx = @ + 1,
                      !.pc = IF sv.idx = Len(sv.om) THEN "while" ELSE "for"]
  /\ UNCHANGED <<dbVars, clientVars, now, call>>
  /\ UNCHANGED uiVars

SolveEmit ==
  /\ sv.pc = "emit"
  /\ sv' = [pc |-> "done", site |-> sv.site,
            result |->
              [determined |-> sv.st.determined,
               conflicts |-> sv.st.conflicts,
               constraints |-> EmitConstraints(sv.om, sv.items, sv.st.determined),
               underdetermined |-> Underdetermined(sv.items, sv.st.determined),
               orders |-> sv.ords,
               inconsistent_orders |-> <<>>],
            iterations |-> sv.st.iteration]
  /\ UNCHANGED <<dbVars, clientVars, now, call>>
  /\ UNCHANGED uiVars

\* the caller (the page script) has consumed the outcome
Finish ==
  /\ call.status \in {"returned", "raised"}
  /\ sv.pc \in {"idle", "done"}
  /\ call' = IdleCall
  /\ sv' = IdleSolver
  /\ UNCHANGED <<dbVars, clientVars, now>>
  /\ UNCHANGED uiVars

(***************************************************************************)
(* st.session_state (lines 227-232) and the click being handled.  `ui` is  *)
(* the frame of the last click handler: the click, its arguments, the      *)
(* database and the draft rows when it was made, and how it ended.         *)
(* `armer` remembers, per order id, the site whose order the delete click  *)
(* that armed the confirmation was made on.                                *)
(***************************************************************************)
EmptyRow == [sku |-> <<>>, qty |-> 1]

\* delete_confirm holds one flag per order-id key; a missing key reads False
InitSession ==
  [sku_rows |-> <<EmptyRow>>,
   delete_confirm |-> [oid \in OrderIds |-> FALSE],
   current_site |-> "MX"]

NoPrev == [click |-> "none"]

NoClick ==
  [click |-> "none", outcome |-> "none", armer |-> [oid \in OrderIds |-> None]]

(***************************************************************************)
(* The console session against the managed backend.  Spec lets every       *)
(* backend statement fail; SpecReliable is the session while none does,    *)
(* with room for more stored orders.                                       *)
(***************************************************************************)

Init ==
  /\ orders = <<>>
  /\ order_items = <<>>
  /\ manual_prices = EmptyFn
  /\ mgr_client = NoClient
  /\ mgr_last_used = NoTime
  /\ db_client = NoClient
  /\ handles = 0
  /\ now = 1
  /\ call = IdleCall
  /\ sv = IdleSolver
  /\ session = InitSession
  /\ ui = NoClick

Next ==
  \/ \E site \in Sites, oid \in OrderIds, total \in AddTotals,
        items \in AddItemLists :
        BeginAddOrder(MaxFaultyOrders, site, oid, total, items)
  \/ ExecAddOrder
  \/ \E site \in Sites, oid \in OrderIds : BeginDeleteOrder(site, oid)
  \/ ExecDeleteOrder
  \/ \E site \in Sites, sku \in ManualSkus, price \in ManualValues :
        BeginSetManualPrice(site, sku, price)
  \/ ExecSetManualPrice
  \/ \E site \in Sites, sku \in ManualSkus : BeginClearManualPrice(site, sku)
  \/ ExecClearManualPrice
  \/ \E site \in Sites : BeginSolve(site)
  \/ ExecGetSiteData
  \/ SolveAtomic
  \/ FailTransient
  \/ FailOther
  \/ Finish

Spec == Init /\ [][Next]_vars

\* the same session while the backend answers every statement
NextReliable ==
  \/ \E site \in Sites, oid \in OrderIds, total \in AddTotals,
        items \in AddItemLists :
        BeginAddOrder(MaxOrders, site, oid, total, items)
  \/ ExecAddOrder
  \/ \E site \in Sites, oid \in OrderIds : BeginDeleteOrder(site, oid)
  \/ ExecDeleteOrder
  \/ \E site \in Sites, sku \in ManualSkus, price \in ManualValues :
        BeginSetManualPrice(site, sku, price)
  \/ ExecSetManualPrice
  \/ \E site \in Sites, sku \in ManualSkus : BeginClearManualPrice(site, sku)
  \/ ExecClearManualPrice
  \/ \E site \in Sites : BeginSolve(site)
  \/ ExecGetSiteData
  \/ SolveAtomic
  \/ Finish

SpecReliable == Init /\ [][NextReliable]_vars

(***************************************************************************)
(* The solver on its own: every run of solve on a stored site drawn from   *)
(* the bounded input sets, one loop step at a time.                        *)
(***************************************************************************)
SolveSite == "MX"

StoredOrders(n, totals) ==
  [i \in 1..n |-> [site |-> SolveSite, order_id |-> OrderIdSeq[i],
                   total_hidden_price |-> FromInt(totals[i])]]

StoredItems(n, lists) ==
  Flatten([i \in 1..n |->
     [j \in 1..Len(lists[i]) |->
        [site |-> SolveSite, order_id |-> OrderIdSeq[i],
         sku |-> lists[i][j].sku, quantity |-> lists[i][j].qty]]])

StoredManual(skus) ==
  [k \in {<<SolveSite, s>> : s \in skus} |->
     FromInt(CHOOSE v \in ManualValues : TRUE)]

InitSolve ==
  /\ \E n \in 1..MaxSolveOrders :
       \E totals \in [1..n -> SolveTotals], lists \in [1..n -> SolveItemLists] :
          /\ orders = StoredOrders(n, totals)
          /\ order_items = StoredItems(n, lists)
  /\ \E skus \in SUBSET {skuA, skuB} : manual_prices = StoredManual(skus)
  /\ mgr_client = NoClient
  /\ mgr_last_used = NoTime
  /\ db_client = NoClient
  /\ handles = 0
  /\ now = 1
  /\ call = IdleCall
  /\ sv = IdleSolver
  /\ session = InitSession
  /\ ui = NoClick

NextSolve ==
  \/ BeginSolve(SolveSite)
  \/ ExecGetSiteData
  \/ SolveStart
  \/ SolveWhile
  \/ SolveFor
  \/ SolveEmit
  \/ Finish

SpecSolve == InitSolve /\ [][NextSolve]_vars

(***************************************************************************)
(* The order entry form (lines 239-245, 284-323).  The text typed into the *)
(* row widgets is an input of the submit click; st.session_state.sku_rows  *)
(* is the draft row list the form is drawn from.                           *)
(***************************************************************************)
MaxRows == 2
MaxEntryOrders == 1
\* what a row's widgets may hold: nothing, a blank, "a " x 1, "A" x 2
TypedRow ==
  { [sku |-> <<>>, qty |-> 1], [sku |-> <<" ">>, qty |-> 1],
    [sku |-> <<"a", " ">>, qty |-> 1], [sku |-> <<"A">>, qty |-> 2] }
TypedRows(n) == [1..n -> TypedRow]
AllTypedRows == UNION {TypedRows(n) : n \in 1..MaxRows}
EntryOrderIds == {"", "o1"}
EntryTotals == {0, 30}

CanClick == call.status = "idle" /\ now <= MaxTime

\* the frame of a click handler that starts now
Click(name, args, outcome) ==
  [click |-> name, args |-> args, before |-> dbVars,
   rows |-> session.sku_rows, outcome |-> outcome, armer |-> ui.armer]

\* add_row
AddRowClick ==
  /\ CanClick
  /\ Len(session.sku_rows) < MaxRows
  /\ session' = [session EXCEPT !.sku_rows = Append(@, EmptyRow)]
  /\ ui' = Click("add_row", <<>>, "done")
  /\ UNCHANGED <<dbVars, clientVars, now, call, sv>>

\* remove_row(index): list.pop(index) when more than one row is left
RemoveRowClick(index) ==
  /\ CanClick
  /\ Len(session.sku_rows) > 1
  /\ index \in 1..Len(session.sku_rows)
  /\ session' = [session EXCEPT !.sku_rows =
                   SubSeq(@, 1, index - 1) \o SubSeq(@, index + 1, Len(@))]
  /\ ui' = Click("remove_row", <<index>>, "done")
  /\ UNCHANGED <<dbVars, clientVars, now, call, sv>>

\* the `items` list the form builds from the typed rows
FormItems(typed) ==
  LET kept == SelectSeq(typed, LAMBDA row : Strip(row.sku) # <<>>)
  IN  [i \in 1..Len(kept) |-> [sku |-> Upper(Strip(kept[i].sku)),
                               qty |-> kept[i].qty]]

\* variant: a total of 0 passes the validation
SubmitError_ZeroTotal(order_id, items, total) ==
  IF order_id = "" THEN "order_id"
  ELSE IF items = <<>> THEN "items"
  ELSE IF total < 0 THEN "total"
  ELSE None

\* the if / elif chain of the submit button; None when the submission passes
SubmitError(order_id, items, total) ==
  IF order_id = "" THEN "order_id"
  ELSE IF items = <<>> THEN "items"
  ELSE IF total <= 0 THEN "total"
  ELSE None

\* the submit button, up to the call of add_order
SubmitClick(order_id, typed, total) ==
  /\ CanClick
  /\ Len(typed) = Len(session.sku_rows)
  /\ LET items == FormItems(typed)
         site == session.current_site
         err == SubmitError(order_id, items, total)
         args == [site |-> site, order_id |-> order_id,
                  total |-> total, items |-> items]
         input == [order_id |-> order_id, typed |-> typed, total |-> total]
     IN  IF err # None
         THEN /\ ui' = Click("submit", input, err)
              /\ UNCHANGED call
         ELSE /\ \/ Len(orders) < MaxEntryOrders
                 \/ \E i \in 1..Len(orders) :
                       orders[i].site = site /\ orders[i].order_id = order_id
              /\ ui' = Click("submit", input, "pending")
              /\ call' = NewCall("add_order", args)
  /\ UNCHANGED <<dbVars, clientVars, now, sv, session>>

\* the submit button, from the return (or the raise) of add_order on
SubmitOutcome ==
  /\ ui.click = "submit"
  /\ ui.outcome = "pending"
  /\ call.status \in {"returned", "raised"}
  /\ IF call.status = "returned" /\ call.result[1]
     THEN /\ session' = [session EXCEPT !.sku_rows = <<EmptyRow>>]
          /\ ui' = [ui EXCEPT !.outcome = "saved"]
     ELSE /\ ui' = [ui EXCEPT !.outcome =
                      IF call.status = "returned" THEN "rejected" ELSE "failed"]
          /\ UNCHANGED session
  /\ call' = IdleCall
  /\ UNCHANGED <<dbVars, clientVars, now, sv>>

NextEntry ==
  \/ AddRowClick
  \/ \E index \in 1..MaxRows : RemoveRowClick(index)
  \/ \E order_id \in EntryOrderIds, total \in EntryTotals,
        typed \in AllTypedRows :
        SubmitClick(order_id, typed, total)
  \/ ExecAddOrder
  \/ FailTransient
  \/ FailOther
  \/ SubmitOutcome

SpecEntry == Init /\ [][NextEntry]_vars

(***************************************************************************)
(* SupabaseManager on its own: get_client and reset called at any time.    *)
(* `call` is the last get_client call: when it was made, the handle cached *)
(* when it was made, the handle it returned and when the call before it    *)
(* was made.                                                               *)
(***************************************************************************)
TickLen == 100
MaxTicks == 8
MaxHandles == 3

\* SupabaseManager.get_client
GetClient ==
  /\ IF call.status = "idle" THEN TRUE ELSE call.op = "get_client"
  /\ IF NeedNewClient
     THEN /\ handles' = handles + 1
          /\ mgr_client' = handles + 1
          /\ mgr_last_used' = now
     ELSE UNCHANGED <<mgr_client, mgr_last_used, handles>>
  /\ call' = [status |-> "returned", op |-> "get_client", at |-> now,
              prev_at |-> IF call.status = "idle" THEN NoTime ELSE call.at,
              had |-> mgr_client, result |-> mgr_client']
  /\ UNCHANGED <<dbVars, db_client, now, sv, uiVars>>

\* SupabaseManager.reset
Reset ==
  /\ mgr_client # NoClient
  /\ handles < MaxHandles
  /\ mgr_client' = NoClient
  /\ UNCHANGED <<dbVars, mgr_last_used, db_client, handles, now, call, sv, uiVars>>

\* the clock advances between calls
Tick ==
  /\ now + TickLen <= 1 + TickLen * MaxTicks
  /\ now' = now + TickLen
  /\ UNCHANGED <<dbVars, clientVars, call, sv, uiVars>>

NextClient ==
  \/ GetClient
  \/ Reset
  \/ Tick

SpecClient == Init /\ [][NextClient]_vars

(***************************************************************************)
(* The site buttons (lines 268-276) and the history console (lines         *)
(* 413-455) over stored orders.  An order row is drawn for every stored    *)
(* order of the current site; each order holds one line item A x 1.        *)
(***************************************************************************)
HistoryStocks ==
  { << <<"MX", "o1">> >>,
    << <<"MX", "o1">>, <<"TH", "o1">> >>,
    << <<"MX", "o1">>, <<"MX", "o2">> >>,
    << <<"MX", "o1">>, <<"MX", "o2">>, <<"TH", "o1">> >> }

InitHistory ==
  /\ \E stock \in HistoryStocks :
        /\ orders = [i \in 1..Len(stock) |->
                       [site |-> stock[i][1], order_id |-> stock[i][2],
                        total_hidden_price |-> FromInt(10)]]
        /\ order_items = [i \in 1..Len(stock) |->
                            [site |-> stock[i][1], order_id |-> stock[i][2],
                             sku |-> skuA, quantity |-> 1]]
  /\ manual_prices = EmptyFn
  /\ mgr_client = NoClient
  /\ mgr_last_used = NoTime
  /\ db_client = NoClient
  /\ handles = 0
  /\ now = 1
  /\ call = IdleCall
  /\ sv = IdleSolver
  /\ session = InitSession
  /\ ui = NoClick

\* a site button
SiteClick(key) ==
  /\ CanClick
  /\ key # session.current_site
  /\ session' = [session EXCEPT !.current_site = key]
  /\ ui' = Click("site", [site |-> key], "done")
  /\ UNCHANGED <<dbVars, clientVars, now, call, sv>>

\* `for order in orders`: the orders of the current site have a row
Displayed(oid) ==
  \E i \in 1..Len(orders) :
     orders[i].site = session.current_site /\ orders[i].order_id = oid

RowArgs(oid) == [site |-> session.current_site, order_id |-> oid]

\* the delete button of an order row
DeleteClick(oid) ==
  /\ CanClick
  /\ Displayed(oid)
  /\ ~session.delete_confirm[oid]
  /\ session' = [session EXCEPT !.delete_confirm[oid] = TRUE]
  /\ ui' = [Click("delete", RowArgs(oid), "armed")
              EXCEPT !.armer[oid] = session.current_site]
  /\ UNCHANGED <<dbVars, clientVars, now, call, sv>>

\* the confirm button, up to the call of delete_order
ConfirmClick(oid) ==
  /\ CanClick
  /\ Displayed(oid)
  /\ session.delete_confirm[oid]
  /\ call' = NewCall("delete_order", RowArgs(oid))
  /\ ui' = Click("confirm", RowArgs(oid), "pending")
  /\ UNCHANGED <<dbVars, clientVars, now, sv, session>>

\* the confirm button, from the return (or the raise) of delete_order on
ConfirmOutcome ==
  /\ ui.click = "confirm"
  /\ ui.outcome = "pending"
  /\ call.status \in {"returned", "raised"}
  /\ IF call.status = "returned"
     THEN /\ session' = [session EXCEPT
                           !.delete_confirm[ui.args.order_id] = FALSE]
          /\ ui' = [ui EXCEPT !.outcome = "deleted",
                              !.armer[ui.args.order_id] = None]
     ELSE /\ ui' = [ui EXCEPT !.outcome = "failed"]
          /\ UNCHANGED session
  /\ call' = IdleCall
  /\ UNCHANGED <<dbVars, clientVars, now, sv>>

\* the cancel button
CancelClick(oid) ==
  /\ CanClick
  /\ Displayed(oid)
  /\ session.delete_confirm[oid]
  /\ session' = [session EXCEPT !.delete_confirm[oid] = FALSE]
  /\ ui' = [Click("cancel", RowArgs(oid), "done") EXCEPT !.armer[oid] = None]
  /\ UNCHANGED <<dbVars, clientVars, now, call, sv>>

NextHistory ==
  \/ \E key \in Sites : SiteClick(key)
  \/ \E oid \in OrderIds : DeleteClick(oid)
  \/ \E oid \in OrderIds : ConfirmClick(oid)
  \/ ExecDeleteOrder
  \/ FailTransient
  \/ FailOther
  \/ ConfirmOutcome
  \/ \E oid \in OrderIds : CancelClick(oid)

SpecHistory == InitHistory /\ [][NextHistory]_vars

(***************************************************************************)
(* The conflict panel (lines 339-392) over a stored site: the confirm and  *)
(* clear buttons drawn for every SKU of the conflicts solve returned.      *)
(* Here `ui` also keeps the click handled before the current one.          *)
(***************************************************************************)
\* the SKUs the panel draws buttons for
ConflictSkus ==
  DOMAIN SolveOn(SelectOrders(orders, session.current_site),
                 SelectItems(order_items, session.current_site),
                 SelectManual(manual_prices, session.current_site)).conflicts

ClickAfter(name, args, outcome) ==
  [click |-> name, args |-> args, before |-> dbVars,
   rows |-> session.sku_rows, outcome |-> outcome, armer |-> ui.armer,
   prev |-> IF ui.click = "none" THEN NoPrev
            ELSE [click |-> ui.click, args |-> ui.args,
                  before |-> ui.before, outcome |-> ui.outcome]]

\* the confirm button of a conflicted SKU, up to the call of set_manual_price
ConfirmPriceClick(sku, price) ==
  /\ CanClick
  /\ sku \in ConflictSkus
  /\ LET args == [site |-> session.current_site, sku |-> sku, price |-> price]
     IN  /\ call' = NewCall("set_manual_price", args)
         /\ ui' = ClickAfter("confirm_price", args, "pending")
  /\ UNCHANGED <<dbVars, clientVars, now, sv, session>>

\* the clear button of a conflicted SKU, up to the call of clear_manual_price
ClearPriceClick(sku) ==
  /\ CanClick
  /\ sku \in ConflictSkus
  /\ LET args == [site |-> session.current_site, sku |-> sku]
     IN  /\ call' = NewCall("clear_manual_price", args)
         /\ ui' = ClickAfter("clear_price", args, "pending")
  /\ UNCHANGED <<dbVars, clientVars, now, sv, session>>

\* either button, from the return (or the raise) of its call on
PriceOutcome ==
  /\ ui.click \in {"confirm_price", "clear_price"}
  /\ ui.outcome = "pending"
  /\ call.status \in {"returned", "raised"}
  /\ ui' = [ui EXCEPT !.outcome =
              IF call.status = "raised" THEN "failed"
              ELSE IF ui.click = "confirm_price" THEN "saved" ELSE "cleared"]
  /\ call' = IdleCall
  /\ UNCHANGED <<dbVars, clientVars, now, sv, session>>

NextOverride ==
  \/ \E sku \in {skuA, skuB}, price \in ManualValues :
        ConfirmPriceClick(sku, price)
  \/ ExecSetManualPrice
  \/ \E sku \in {skuA, skuB} : ClearPriceClick(sku)
  \/ ExecClearManualPrice
  \/ PriceOutcome

SpecOverride == InitSolve /\ [][NextOverride]_vars

(***************************************************************************)
(* Claims.                                                                 *)
(***************************************************************************)
InCall(op) == call.status # "idle" /\ call.op = op

\* the call ended by the raise that follows a transient failure
RetryExhausted == call.status = "raised" /\ call.failure = "transient"

StrictlyIncreasing(s) == \A i \in 1..Len(s) - 1 : s[i] < s[i + 1]

\* C1: a wrapped call whose every attempt fails with a transient error enters
\* the wrapped body exactly 3 times, sleeps Delay*1 before the 2nd and Delay*2
\* before the 3rd attempt (strictly increasing, none after the 3rd), and the
\* error reaches the caller exactly once.
C1_RetryThenFail ==
  call.status # "idle" =>
    /\ call.entered = call.attempt + 1
    /\ call.raised = (IF call.status = "raised" THEN 1 ELSE 0)
    /\ RetryExhausted =>
         /\ call.entered = 3
         /\ call.sleeps = <<Delay * 1, Delay * 2>>
         /\ StrictlyIncreasing(call.sleeps)
         /\ call.raised = 1

C1_Witness == RetryExhausted /\ call.entered = 3 /\ Len(call.sleeps) = 2

\* the state a transient failure leaves: the next attempt is about to start,
\* or the error has been raised to the caller
AfterTransientFailure ==
  /\ call.status \in {"running", "raised"}
  /\ call.failure = "transient"
  /\ call.status = "running" => call.pc = 1

\* C2: whenever a wrapped backend call fails with a transient connectivity
\* error, the process-wide cached client handle is discarded
\* (SupabaseManager._client is empty afterwards).
C2_HandleDiscarded == AfterTransientFailure => mgr_client = NoClient

SamePair(o, site, order_id) == o.site = site /\ o.order_id = order_id

PairIn(ords, site, order_id) ==
  \E i \in 1..Len(ords) : SamePair(ords[i], site, order_id)

\* C3: the orders collection holds at most one row per (site, order_id); an
\* add_order for a pair that already has a row inserts no order row and no
\* line-item row, and what it returns is the duplicate-order rejection.
C3_NoDuplicateOrder ==
  /\ \A i, j \in 1..Len(orders) :
        i # j => ~SamePair(orders[i], orders[j].site, orders[j].order_id)
  /\ (InCall("add_order")
        /\ PairIn(call.snap[1], call.args.site, call.args.order_id)) =>
       /\ orders = call.snap[1]
       /\ order_items = call.snap[2]
       /\ call.status = "returned" => call.result = DuplicateOrder

C3_Witness ==
  /\ InCall("add_order")
  /\ call.status = "returned"
  /\ call.result = DuplicateOrder
  /\ PairIn(call.snap[1], call.args.site, call.args.order_id)
  /\ Len(orders) = 1

(***************************************************************************)
(* Reference notions the solver claims are stated with, written from the   *)
(* stored rows and independent of the solver's own operators.              *)
(***************************************************************************)
Done == sv.pc = "done"

SiteOrderRows(s) == {i \in 1..Len(orders) : orders[i].site = s}
SiteOrderIds(s) == {orders[i].order_id : i \in SiteOrderRows(s)}
SiteTotal(s, oid) ==
  orders[CHOOSE i \in SiteOrderRows(s) : orders[i].order_id = oid].total_hidden_price
SiteRows(s, oid) ==
  SelectSeq(order_items, LAMBDA it : it.site = s /\ it.order_id = oid)
SiteSkus(s) ==
  {order_items[i].sku : i \in {j \in 1..Len(order_items) : order_items[j].site = s}}
ManualSkusOf(s) == {k[2] : k \in {j \in DOMAIN manual_prices : j[1] = s}}

\* positions of the rows of an order whose SKU is not among `known`
UnknownRows(rows, known) == {i \in 1..Len(rows) : rows[i].sku \notin known}

\* sum of quantity * price over the rows whose SKU has a price in p
RECURSIVE RefSum(_, _, _)
RefSum(rows, p, i) ==
  IF i > Len(rows) THEN <<0, 1>>
  ELSE IF rows[i].sku \in DOMAIN p
       THEN RAdd(RMulInt(rows[i].quantity, p[rows[i].sku]), RefSum(rows, p, i + 1))
       ELSE RefSum(rows, p, i + 1)

\* orders of site s with exactly one line item whose SKU has no price in p
SingleUnknown(s, p) ==
  {oid \in SiteOrderIds(s) :
     Cardinality(UnknownRows(SiteRows(s, oid), DOMAIN p)) = 1}

UnknownRowOf(s, oid, p) ==
  LET rows == SiteRows(s, oid)
  IN  rows[CHOOSE i \in UnknownRows(rows, DOMAIN p) : TRUE]

\* repeated single-unknown substitution, all derivable SKUs at once
RECURSIVE Substitution(_, _)
Substitution(s, p) ==
  LET oids == SingleUnknown(s, p)
      new == {UnknownRowOf(s, oid, p).sku : oid \in oids}
      from(sku) == CHOOSE oid \in oids : UnknownRowOf(s, oid, p).sku = sku
      value(sku) ==
        LET oid == from(sku)
            rows == SiteRows(s, oid)
        IN  RDivInt(RSub(SiteTotal(s, oid), RefSum(rows, p, 1)),
                    UnknownRowOf(s, oid, p).quantity)
  IN  IF new = {} THEN p
      ELSE Substitution(s, [k \in DOMAIN p \cup new |->
                              IF k \in DOMAIN p THEN p[k] ELSE value(k)])

\* p prices every SKU of site s and every order's line items sum to its total
Satisfies(s, p) ==
  /\ SiteSkus(s) \subseteq DOMAIN p
  /\ \A oid \in SiteOrderIds(s) :
        RefSum(SiteRows(s, oid), p, 1) = SiteTotal(s, oid)

OneRow(s, oid, sku, qty) ==
  /\ Len(SiteRows(s, oid)) = 1
  /\ SiteRows(s, oid)[1].sku = sku
  /\ SiteRows(s, oid)[1].quantity = qty

\* two stored orders of one quantity-1 line item each, for the same SKU, with
\* different totals, on a site without manual override
C4_Case ==
  /\ Done
  /\ ManualSkusOf(sv.site) = {}
  /\ Len(orders) = 2
  /\ orders[1].site = sv.site /\ orders[2].site = sv.site
  /\ orders[1].total_hidden_price # orders[2].total_hidden_price
  /\ \E x \in SiteSkus(sv.site) :
        OneRow(sv.site, orders[1].order_id, x, 1)
        /\ OneRow(sv.site, orders[2].order_id, x, 1)

\* C4: for {E:1}=t1 then {E:1}=t2 (t1 # t2, e.g. 10 and 15) without manual
\* override, solve reports a conflict for E that exposes both values (the
\* retained one as `current`, the other as `value`) and keeps E at the value
\* derived first.
C4_ConflictExposed ==
  C4_Case =>
    LET x == SiteRows(sv.site, orders[1].order_id)[1].sku
        t1 == orders[1].total_hidden_price
        t2 == orders[2].total_hidden_price
        r == sv.result
    IN  /\ DOMAIN r.determined = {x}
        /\ r.determined[x] = t1
        /\ DOMAIN r.conflicts = {x}
        /\ Len(r.conflicts[x]) = 1
        /\ r.conflicts[x][1].value = t2
        /\ r.conflicts[x][1].current = t1
        /\ r.conflicts[x][1].derived_from = orders[2].order_id

C4_Witness ==
  /\ C4_Case
  /\ orders[1].total_hidden_price = <<10, 1>>
  /\ orders[2].total_hidden_price = <<15, 1>>
  /\ skuA \in DOMAIN sv.result.conflicts

\* C6 (result): on a site with at least one order, every SKU with a manual
\* override is determined at exactly the manual price.
C6_ManualKept ==
  (Done /\ SiteOrderRows(sv.site) # {}) =>
    \A sku \in ManualSkusOf(sv.site) :
       /\ sku \in DOMAIN sv.result.determined
       /\ sv.result.determined[sku] = manual_prices[<<sv.site, sku>>]

\* C6 (steps): no step of the resolution loop removes or replaces a value
\* already in the known-price map.
C6_NoReplace ==
  (sv.pc \in {"while", "for"} /\ sv'.pc \in {"while", "for", "emit"}) =>
    \A sku \in DOMAIN sv.st.determined :
       /\ sku \in DOMAIN sv'.st.determined
       /\ sv'.st.determined[sku] = sv.st.determined[sku]

\* C6: manual overrides are authoritative: the determined map holds exactly
\* the manual price for every overridden SKU whatever the orders imply, and no
\* derivation step replaces a value already known.
C6_ManualAuthoritative == []C6_ManualKept /\ [][C6_NoReplace]_vars

\* an overridden SKU whose orders imply another price
C6_Witness ==
  /\ Done
  /\ skuA \in ManualSkusOf(sv.site)
  /\ OneRow(sv.site, "o1", skuA, 1)
  /\ SiteTotal(sv.site, "o1") = <<10, 1>>
  /\ sv.result.determined[skuA] = <<12, 1>>

\* a site without manual override whose orders are resolved by repeated
\* single-unknown substitution into prices that satisfy every order
C7_Case ==
  /\ Done
  /\ SiteOrderRows(sv.site) # {}
  /\ ManualSkusOf(sv.site) = {}
  /\ Satisfies(sv.site, Substitution(sv.site, EmptyFn))

\* C7: for a consistent site that substitution resolves fully, solve returns
\* the satisfying prices for every SKU, no conflict, no underdetermined SKU and
\* no constraint, whatever the order the orders are stored and processed in.
C7_ExactSolve ==
  C7_Case =>
    /\ sv.result.determined = Substitution(sv.site, EmptyFn)
    /\ sv.result.conflicts = EmptyFn
    /\ sv.result.underdetermined = {}
    /\ sv.result.constraints = <<>>

\* {A:1, B:1} = 30 stored before {A:1} = 10: B is found on the second pass
C7_Witness ==
  /\ C7_Case
  /\ Len(orders) = 2
  /\ Len(SiteRows(sv.site, orders[1].order_id)) = 2
  /\ orders[1].total_hidden_price = <<30, 1>>
  /\ OneRow(sv.site, orders[2].order_id, skuA, 1)
  /\ orders[2].total_hidden_price = <<10, 1>>
  /\ sv.result.determined = [k \in {skuA, skuB} |->
                               IF k = skuA THEN <<10, 1>> ELSE <<20, 1>>]

\* the stored orders of the solved site that keep two or more unknown line items
StillOpen(det) ==
  SelectSeq(orders,
            LAMBDA o : o.site = sv.site
                       /\ Cardinality(UnknownRows(SiteRows(sv.site, o.order_id),
                                                  DOMAIN det)) >= 2)

OpenRows(oid, det) ==
  SelectSeq(SiteRows(sv.site, oid), LAMBDA it : it.sku \notin DOMAIN det)

\* the constraints of the result are those of the open orders, one each, with
\* the right-hand side `shown` makes of (total - known contribution)
ConstraintsAre(shown(_)) ==
  LET det == sv.result.determined
      cs == sv.result.constraints
      open == StillOpen(det)
  IN  /\ Len(cs) = Len(open)
      /\ \A k \in 1..Len(open) :
            LET oid == open[k].order_id
                rows == OpenRows(oid, det)
            IN  /\ cs[k].order_id = oid
                /\ cs[k].terms = [j \in 1..Len(rows) |->
                                    <<rows[j].quantity, rows[j].sku>>]
                /\ cs[k].missing_skus = [j \in 1..Len(rows) |-> rows[j].sku]
                /\ cs[k].rhs =
                     shown(RSub(open[k].total_hidden_price,
                                RefSum(SiteRows(sv.site, oid), det, 1)))

Exactly(x) == x

\* C8 (as stated): one constraint per order with two or more unknown line
\* items and none for any other; each lists the order's unknown SKUs with
\* their quantities and exactly the total minus the known SKUs' contribution.
C8_ConstraintsExact ==
  (Done /\ SiteOrderRows(sv.site) # {}) => ConstraintsAre(Exactly)

\* C8 (amended): as above, the right-hand side being the total minus the known
\* SKUs' contribution rounded to two decimals.
C8_ConstraintsRounded ==
  (Done /\ SiteOrderRows(sv.site) # {}) => ConstraintsAre(Fmt2)

\* a lone order {A:2, B:1} = 30: nothing determined, one constraint 2A + 1B = 30
C8_Witness ==
  /\ Done
  /\ Len(orders) = 1
  /\ ManualSkusOf(sv.site) = {}
  /\ sv.result.determined = EmptyFn
  /\ sv.result.underdetermined = {skuA, skuB}
  /\ Len(sv.result.constraints) = 1
  /\ sv.result.constraints[1].terms = <<<<2, skuA>>, <<1, skuB>>>>
  /\ sv.result.constraints[1].rhs = <<30, 1>>

\* what solve(s) returns on the stored data
View(ords, items, manual, s) ==
  SolveOn(SelectOrders(ords, s), SelectItems(items, s), SelectManual(manual, s))

SiteView(s) == View(orders, order_items, manual_prices, s)

WithoutOverride(s, sku) ==
  LET m == SelectManual(manual_prices, s)
  IN  [k \in DOMAIN m \ {sku} |-> m[k]]

\* C5: once a manual price is set for a SKU that was in the conflict set, the
\* next solve reports the SKU determined at the manual price and reports no
\* conflict for it.
C5_OverrideClearsConflict ==
  (Done /\ SiteOrderRows(sv.site) # {}) =>
    \A sku \in ManualSkusOf(sv.site) :
       sku \in DOMAIN SolveOn(SelectOrders(orders, sv.site),
                              SelectItems(order_items, sv.site),
                              WithoutOverride(sv.site, sku)).conflicts
       => /\ sku \in DOMAIN sv.result.determined
          /\ sv.result.determined[sku] = manual_prices[<<sv.site, sku>>]
          /\ sku \notin DOMAIN sv.result.conflicts

Mutating == {"add_order", "delete_order", "set_manual_price", "clear_manual_price"}

\* C9 (step): a step of an add_order, delete_order, set_manual_price or
\* clear_manual_price call made for one site leaves what solve returns for
\* every other site unchanged.
C9_OtherSiteStep ==
  \A s \in Sites :
     (call.status = "running" /\ call.op \in Mutating /\ call.args.site # s)
       => View(orders', order_items', manual_prices', s) = SiteView(s)

\* C9: the result of solve for one site is unchanged by any sequence of
\* mutating calls made on a different site, also when both sites hold the same
\* SKU string or the same order id.
C9_SiteIsolation == [][C9_OtherSiteStep]_vars

\* an order saved on one site while another site holds the same order id and
\* the same SKU
C9_Witness ==
  /\ InCall("add_order")
  /\ call.status = "returned"
  /\ call.result = Saved
  /\ \E s \in Sites \ {call.args.site} :
        /\ PairIn(orders, s, call.args.order_id)
        /\ SiteSkus(s) \cap SiteSkus(call.args.site) # {}

\* what solve(s) returned on the database as it was when the call was made
SnapView(s) == View(call.snap[1], call.snap[2], call.snap[3], s)

ManualOf(s) == [k \in ManualSkusOf(s) |-> manual_prices[<<s, k>>]]

Referenced(s, sku) ==
  \E oid \in SiteOrderIds(s) :
     \E i \in 1..Len(SiteRows(s, oid)) : SiteRows(s, oid)[i].sku = sku

Mentions(r, sku) ==
  \/ sku \in DOMAIN r.determined
  \/ sku \in DOMAIN r.conflicts
  \/ sku \in r.underdetermined
  \/ \E i \in 1..Len(r.constraints) :
        \E j \in 1..Len(r.constraints[i].missing_skus) :
           r.constraints[i].missing_skus[j] = sku

\* delete_order has returned; F was determined before, has no manual override,
\* and no remaining order yields it by substitution
C10_Case(F) ==
  /\ InCall("delete_order")
  /\ call.status = "returned"
  /\ PairIn(call.snap[1], call.args.site, call.args.order_id)
  /\ F \in DOMAIN SnapView(call.args.site).determined
  /\ F \notin ManualSkusOf(call.args.site)
  /\ F \notin DOMAIN Substitution(call.args.site, ManualOf(call.args.site))

\* C10: after delete_order removes the only order F's price was derived from,
\* the next solve no longer reports F as determined: F is underdetermined if
\* another order still references it and absent from the result otherwise.
C10_DeleteUnpins ==
  \A F \in {skuA, skuB, skuC} :
     C10_Case(F) =>
       LET s == call.args.site
           r == SiteView(s)
       IN  /\ F \notin DOMAIN r.determined
           /\ IF Referenced(s, F)
              THEN F \in r.underdetermined
              ELSE ~Mentions(r, F)

C10_Witness ==
  /\ C10_Case(skuA)
  /\ Referenced(call.args.site, skuA)
  /\ skuA \in SiteView(call.args.site).underdetermined

C10_WitnessGone ==
  /\ C10_Case(skuB)
  /\ ~Referenced(call.args.site, skuB)
  /\ SiteOrderRows(call.args.site) # {}

\* C11: every unit price in the determined map solve returns is >= 0, for
\* orders with positive totals and positive quantities: a derivation whose
\* value would be negative is reported as 0.  (Stated for sites without
\* manual override, so that every price comes from the orders alone.)
C11_NonNegative ==
  (Done /\ SiteOrderRows(sv.site) # {} /\ ManualSkusOf(sv.site) = {}) =>
    \A sku \in DOMAIN sv.result.determined :
       sv.result.determined[sku][1] >= 0

\* a submission with an empty order id, no row with a SKU (empty or blank), or
\* a total that is not above 0
InvalidInput(a) ==
  \/ a.order_id = ""
  \/ \A i \in 1..Len(a.typed) : Strip(a.typed[i].sku) = <<>>
  \/ a.total <= 0

\* C12 (calls): add_order is only ever running for a submit click whose
\* input is valid.
C12_OnlyValidCalls ==
  InCall("add_order") => (ui.click = "submit" /\ ~InvalidInput(ui.args))

\* C12 (invalid click): a submit click with invalid input starts no call and
\* leaves orders, line items, overrides and the session state as they were.
C12_InvalidClick ==
  (call.status = "idle" /\ ui' # ui /\ ui'.click = "submit"
     /\ InvalidInput(ui'.args))
    => (call' = call /\ UNCHANGED dbVars /\ session' = session)

\* C12 (outcome): when the handler resumes after add_order, the draft is one
\* empty row of quantity 1 if add_order returned acceptance, and is as it was
\* if add_order returned a rejection or raised.
C12_DraftAfterCall ==
  (call.status \in {"returned", "raised"} /\ call.op = "add_order"
     /\ call'.status = "idle")
    => IF call.status = "returned" /\ call.result = Saved
       THEN session'.sku_rows = <<[sku |-> <<>>, qty |-> 1]>>
       ELSE session'.sku_rows = session.sku_rows

\* C12: an invalid submit never calls add_order and changes neither the stored
\* data nor the draft rows; an accepted submit resets the draft to one empty
\* row with quantity 1; a rejected or raising submit leaves the draft as is.
C12_SubmitHandling ==
  []C12_OnlyValidCalls /\ [][C12_InvalidClick /\ C12_DraftAfterCall]_vars

\* a two-row draft reset by an accepted submit
C12_Witness ==
  /\ ui.click = "submit"
  /\ ui.outcome = "saved"
  /\ Len(ui.rows) = 2
  /\ session.sku_rows = <<[sku |-> <<>>, qty |-> 1]>>
  /\ Len(orders) = 1

C12_WitnessInvalid ==
  /\ ui.click = "submit"
  /\ ui.outcome = "total"
  /\ Len(session.sku_rows) = 2
  /\ orders # <<>>

C12_WitnessFailed ==
  /\ ui.click = "submit"
  /\ ui.outcome \in {"rejected", "failed"}
  /\ Len(session.sku_rows) = 2

\* the normalised SKUs of the typed rows, and the total quantity typed for one
TypedSkusOf(typed) ==
  {Upper(Strip(typed[i].sku)) : i \in 1..Len(typed)} \ {<<>>}

RECURSIVE TypedQty(_, _, _)
TypedQty(typed, k, i) ==
  IF i > Len(typed) THEN 0
  ELSE (IF Upper(Strip(typed[i].sku)) = k THEN typed[i].qty ELSE 0)
         + TypedQty(typed, k, i + 1)

HasDuplicateSku(typed) ==
  \E i, j \in 1..Len(typed) :
     i # j /\ Strip(typed[i].sku) # <<>>
     /\ Upper(Strip(typed[i].sku)) = Upper(Strip(typed[j].sku))

\* C13: when one submission holds the same normalised SKU on two or more rows,
\* the order is stored with a single line item for that SKU whose quantity is
\* the sum of the rows' quantities, and the solver sees the SKU as one unknown
\* of the order (A x 1, A x 2 with total 30 alone determines A = 10).
C13_DuplicatesMerged ==
  (ui.click = "submit" /\ ui.outcome = "saved") =>
    LET site == session.current_site
        typed == ui.args.typed
        rows == SiteRows(site, ui.args.order_id)
        skus == TypedSkusOf(typed)
    IN  /\ \A k \in skus :
              /\ Cardinality({i \in 1..Len(rows) : rows[i].sku = k}) = 1
              /\ \E i \in 1..Len(rows) :
                    rows[i].sku = k /\ rows[i].quantity = TypedQty(typed, k, 1)
        /\ (Cardinality(skus) = 1 /\ Len(orders) = 1) =>
              SiteView(site).determined =
                [k \in skus |-> RDivInt(<<ui.args.total, 1>>, TypedQty(typed, k, 1))]

\* the same statement for submissions without a repeated SKU
C13_DistinctRowsStored ==
  (ui.click = "submit" /\ ~HasDuplicateSku(ui.args.typed)) => C13_DuplicatesMerged

\* C14: whenever add_order returns the duplicate-order rejection, the call has
\* changed nothing: orders and order_items are exactly as they were when the
\* call was made, retried executions included.
C14_RejectionChangedNothing ==
  (InCall("add_order") /\ call.status = "returned"
     /\ call.result = DuplicateOrder)
    => (orders = call.snap[1] /\ order_items = call.snap[2])

\* an order of the solved site with two or more line items, every SKU priced
\* in det, whose total is more than 0.01 away from the priced sum
Contradicted(oid, det) ==
  LET rows == SiteRows(sv.site, oid)
      diff == RSub(SiteTotal(sv.site, oid), RefSum(rows, det, 1))
  IN  /\ Len(rows) >= 2
      /\ \A i \in 1..Len(rows) : rows[i].sku \in DOMAIN det
      /\ RLess(<<1, 100>>, RAbs(diff))

\* C15: an order with two or more line items whose SKUs are all known and
\* whose total differs from the sum of quantity x known price by more than 0.01
\* is listed in the inconsistent-orders result solve returns.
C15_InconsistentReported ==
  (Done /\ SiteOrderRows(sv.site) # {}) =>
    \A oid \in SiteOrderIds(sv.site) :
       Contradicted(oid, sv.result.determined) =>
         \E i \in 1..Len(sv.result.inconsistent_orders) :
            sv.result.inconsistent_orders[i] = oid

\* C16: get_client creates a new handle exactly when no handle is cached or
\* more than 300 seconds have passed since the previous get_client call; a call
\* made within 300 seconds of the previous call returns the cached handle.
C16_StaleAfterIdle ==
  (call.status = "returned" /\ call.op = "get_client") =>
    LET fresh == call.result # call.had
        idle == call.prev_at # NoTime /\ call.at - call.prev_at > 300
    IN  /\ fresh <=> (call.had = NoClient \/ idle)
        /\ (call.had # NoClient /\ ~idle) => call.result = call.had

\* a step in which delete_order is invoked
DeleteInvoked ==
  call.status = "idle" /\ call'.status = "running" /\ call'.op = "delete_order"

\* C17 (invoke): delete_order for an order is invoked only by a confirm click
\* made while the order's confirmation state is armed, the state having been
\* armed by a delete click on that very order (its site and its id).
C17_InvokedWhenArmed ==
  DeleteInvoked =>
    /\ ui'.click = "confirm"
    /\ ui'.args = call'.args
    /\ session.delete_confirm[call'.args.order_id]
    /\ ui.armer[call'.args.order_id] = call'.args.site

\* C17 (arm): a confirmation state becomes armed only in a delete click on an
\* order with that id shown for the current site.
C17_ArmedByDeleteClick ==
  \A oid \in OrderIds :
     (~session.delete_confirm[oid] /\ session'.delete_confirm[oid]) =>
       /\ ui'.click = "delete"
       /\ ui'.args = [site |-> session.current_site, order_id |-> oid]
       /\ PairIn(orders, session.current_site, oid)

\* C17 (cancel): a cancel click disarms the state and leaves orders, line items
\* and overrides unchanged.
C17_CancelDisarms ==
  (ui' # ui /\ ui'.click = "cancel") =>
    /\ session.delete_confirm[ui'.args.order_id]
    /\ ~session'.delete_confirm[ui'.args.order_id]
    /\ UNCHANGED dbVars
    /\ call' = call

\* C17 (outcome): after a successful delete the state of that order id is
\* disarmed; after a failed delete no order row has been removed.
C17_AfterDelete ==
  (call.status \in {"returned", "raised"} /\ call.op = "delete_order"
     /\ call'.status = "idle")
    => IF call.status = "returned"
       THEN ~session'.delete_confirm[call.args.order_id]
       ELSE orders' = call.snap[1]

\* C17: the two-step delete of the history console, as stated.
C17_TwoStepDelete ==
  [][C17_InvokedWhenArmed /\ C17_ArmedByDeleteClick /\ C17_CancelDisarms
       /\ C17_AfterDelete]_vars

\* the same with the armed state taken per order id, whichever site's order
\* the delete click was made on
C17_InvokedWhenArmedById ==
  DeleteInvoked =>
    /\ ui'.click = "confirm"
    /\ ui'.args = call'.args
    /\ session.delete_confirm[call'.args.order_id]
    /\ ui.armer[call'.args.order_id] # None

C17_TwoStepDeleteById ==
  [][C17_InvokedWhenArmedById /\ C17_ArmedByDeleteClick /\ C17_CancelDisarms
       /\ C17_AfterDelete]_vars

\* a step in which a backend statement fails with a non-transient error
OtherFailure ==
  call.status = "running" /\ call.failure # "other" /\ call'.failure = "other"

\* C18 (step): the non-transient error is raised to the caller by the very
\* step that fails: no wait, no further attempt, nothing written.
C18_RaisedAtOnce ==
  OtherFailure =>
    /\ call'.status = "raised"
    /\ call'.raised = 1
    /\ call'.entered = call.entered
    /\ call'.sleeps = call.sleeps
    /\ now' = now
    /\ UNCHANGED dbVars

\* C18 (call): a call ended by a non-transient error has slept only for the
\* transient failures before it, one wait per earlier attempt; when its first
\* failure is the non-transient one it was attempted exactly once.
C18_AttemptedOnce ==
  (call.status # "idle" /\ call.failure = "other") =>
    /\ call.status = "raised"
    /\ call.raised = 1
    /\ Len(call.sleeps) = call.entered - 1
    /\ call.sleeps = <<>> => call.entered = 1

\* C18: a wrapped call failing with an error that is not a transient
\* connectivity error is not retried: the error reaches the caller on that
\* failure, with no wait and no retry.
C18_NoRetryOnOtherError == []C18_AttemptedOnce /\ [][C18_RaisedAtOnce]_vars

C18_Witness ==
  /\ call.status = "raised"
  /\ call.failure = "other"
  /\ call.entered = 1
  /\ call.sleeps = <<>>
  /\ call.pc = 0

\* the SKUs the orders of the solved site reference, and those priced by the
\* loop rather than by a manual override
DistinctSkus == SiteSkus(sv.site)
LoopAdded(st) == DOMAIN st.determined \ ManualSkusOf(sv.site)

Min(a, b) == IF a < b THEN a ELSE b

\* an order of the solved site with exactly one line item not priced in det
OneUnknownLeft(det) ==
  \E oid \in SiteOrderIds(sv.site) :
     Cardinality(UnknownRows(SiteRows(sv.site, oid), DOMAIN det)) = 1

\* C19 (passes): at the loop head after k passes, k <= min(50, SKUs + 1); each
\* pass that lets the loop go on has added a SKU, so k passes that all went on
\* added at least k SKUs; and the loop is left only at a fixpoint or at pass 50.
C19_PassBound ==
  /\ sv.pc \in {"while", "for", "emit"} =>
       /\ sv.st.iteration <= Min(50, Cardinality(DistinctSkus) + 1)
       /\ Cardinality(LoopAdded(sv.st)) >=
            (IF sv.st.changed THEN sv.st.iteration ELSE sv.st.iteration - 1)
  /\ sv.pc = "emit" =>
       (sv.st.iteration < 50 => ~OneUnknownLeft(sv.st.determined))
  /\ (Done /\ SiteOrderRows(sv.site) # {}) =>
       /\ sv.iterations >= 1
       /\ sv.iterations <= Min(50, Cardinality(DistinctSkus) + 1)
       /\ sv.iterations < 50 => ~OneUnknownLeft(sv.result.determined)

\* C19 (step): within a pass the known-price map only grows, and the pass is
\* marked as changed exactly when an order of it has added a SKU; the loop
\* head starts another pass exactly when the last pass was marked and fewer
\* than 50 passes were made.
C19_PassStep ==
  /\ (sv.pc = "for" /\ sv'.pc \in {"for", "while"}) =>
       /\ DOMAIN sv.st.determined \subseteq DOMAIN sv'.st.determined
       /\ sv'.st.changed <=>
            (sv.st.changed \/ DOMAIN sv'.st.determined # DOMAIN sv.st.determined)
  /\ (sv.pc = "while" /\ sv'.pc = "for") =>
       (sv.st.changed /\ sv.st.iteration < 50 /\ ~sv'.st.changed
          /\ sv'.st.iteration = sv.st.iteration + 1)
  /\ (sv.pc = "while" /\ sv'.pc = "emit") =>
       (~sv.st.changed \/ sv.st.iteration >= 50)

\* C19: the resolution loop ends after at most min(50, distinct SKUs + 1)
\* passes, every pass but the last adds at least one SKU to the known-price
\* map, and a loop that stops before pass 50 leaves no order with exactly one
\* unknown line item.
C19_LoopTerminates == []C19_PassBound /\ [][C19_PassStep]_vars

\* three passes for two SKUs: {A:1, B:1} stored before {A:1}; the first pass
\* prices A, the second B, the third changes nothing
C19_Witness ==
  /\ Done
  /\ SiteOrderRows(sv.site) # {}
  /\ ManualSkusOf(sv.site) = {}
  /\ sv.iterations = 3
  /\ Cardinality(DOMAIN sv.result.determined) = 2

\* clear_manual_price(site, sku) has just returned, the click before it was a
\* set_manual_price(site, sku, p) that returned, and the SKU had no override
\* when that one was made
C20_Case ==
  /\ ui.click = "clear_price"
  /\ ui.outcome = "cleared"
  /\ ui.prev.click = "confirm_price"
  /\ ui.prev.outcome = "saved"
  /\ ui.prev.args.site = ui.args.site
  /\ ui.prev.args.sku = ui.args.sku
  /\ <<ui.args.site, ui.args.sku>> \notin DOMAIN ui.prev.before[3]

\* C20: for a SKU without override, set_manual_price followed by
\* clear_manual_price returns the site to automatic inference: solve gives what
\* it gave before the override was set, and orders, line items and the other
\* SKUs' overrides are as they were.
C20_SetThenClear ==
  C20_Case =>
    LET b == ui.prev.before
        s == ui.args.site
    IN  /\ orders = b[1]
        /\ order_items = b[2]
        /\ manual_prices = b[3]
        /\ <<s, ui.args.sku>> \notin DOMAIN manual_prices
        /\ \A k \in DOMAIN b[3] : k \in DOMAIN manual_prices
                                  /\ manual_prices[k] = b[3][k]
        /\ SiteView(s) = View(b[1], b[2], b[3], s)
        \* while the override was set, solve used it
        /\ View(ui.before[1], ui.before[2], ui.before[3], s)
             .determined[ui.args.sku] = <<ui.prev.args.price, 1>>

\* A in conflict (orders {A:1} = 10 and {A:1} = 15) while B keeps its override
C20_Witness ==
  /\ C20_Case
  /\ ui.args.sku = skuA
  /\ DOMAIN manual_prices = {<<ui.args.site, skuB>>}
  /\ skuA \in DOMAIN SiteView(ui.args.site).conflicts
  /\ SiteView(ui.args.site).determined[skuA] # <<12, 1>>

====
